---------------------------- MODULE Spec2Model ----------------------------
(***************************************************************************)
(* Model of src/index.js: the daily-problem cache (getDailyProblem), the   *)
(* POST /api/run handler, the Python test harness it generates             *)
(* (createPythonTestWrapper), the interpretation of the Piston transcript  *)
(* (processPistonResponse) and the issue heuristic (analyzeIssuesFixed).   *)
(*                                                                         *)
(* Three specifications share the module:                                  *)
(*   Spec        one POST /api/run request, from the handler's entry to    *)
(*               its HTTP response, the generated harness executed step by *)
(*               step by Piston;                                           *)
(*   SpecIssues  analyzeIssuesFixed applied to bounded inputs;             *)
(*   SpecCache   concurrent callers of getDailyProblem.                    *)
(***************************************************************************)
EXTENDS Integers, Sequences, FiniteSets, TLC

VARIABLES
  \* ---- one POST /api/run request (Spec)
  pc,            \* position of the request: handler, harness, done
  userCode,      \* req.body.userCode, by what the text does when run
  language,      \* req.body.language
  problem,       \* what getDailyProblem() returned to the handler
  namespace,     \* harness: names bound in global_namespace
  results,       \* harness: the list `results` of run_tests
  idx,           \* harness: the loop variable i (0-based), next test to run
  stdout,        \* Piston: lines captured on standard output
  stderr,        \* Piston: lines captured on standard error
  code,          \* Piston: exit code of the process (-1: none, killed)
  event,         \* harness: what the latest call of the entry point did
  response,      \* the HTTP response of the handler
  \* ---- analyzeIssuesFixed on its own (SpecIssues)
  aResults,      \* argument `results`
  aIssues,       \* argument `issues`
  aOut,          \* what the call returned
  aPc,           \* "call" before the call, "returned" after
  \* ---- getDailyProblem (SpecCache)
  dailyProblemCache,  \* module variable, line 15
  lastCacheUpdate,    \* module variable, line 16
  clock,              \* wall clock, milliseconds
  storage,            \* problems directory: the problems its files hold
  cpc,                \* per caller: position inside getDailyProblem
  cnow,               \* per caller: its local `now`
  cfiles,             \* per caller: the files its loop has still to visit
  cproblems,          \* per caller: its local `problems`
  cret                \* per caller: the value returned

runVars == <<pc, userCode, language, problem, namespace, results, idx,
             stdout, stderr, code, event, response>>
issueVars == <<aResults, aIssues, aOut, aPc>>
cacheVars == <<dailyProblemCache, lastCacheUpdate, clock, storage, cpc, cnow,
               cfiles, cproblems, cret>>
vars == <<runVars, issueVars, cacheVars>>

-----------------------------------------------------------------------------
(* Bounds of the model *)

MaxIssues == 2      \* longest `issues` list given to analyzeIssuesFixed
MaxOutcomes == 2    \* longest `results` list given to analyzeIssuesFixed
MaxTests == 2       \* longest `testCases` list of a problem

\* Sequences over S of length at most n.
SeqUpTo(S, n) == UNION {[1..k -> S] : k \in 0..n}

-----------------------------------------------------------------------------
(* JavaScript / JSON values.  Every value has the same record shape so that *)
(* an absent property is a field whose `def` is FALSE (or "undefined").     *)

Undefined == "undefined"

NoSummary == [def |-> FALSE, total |-> 0, passed |-> 0, failed |-> 0]
NoList == [def |-> FALSE, list |-> <<>>]
NoMap == [def |-> FALSE, map |-> <<>>]
NoText == [def |-> FALSE, text |-> <<>>]

\* The object literal {total, passed, failed}.
Summary(t, p, f) == [def |-> TRUE, total |-> t, passed |-> p, failed |-> f]

\* A JSON value: t is "obj", "num" or "null"; the other fields are the
\* properties of an object (all absent for a number and for null).
JValue(t, status, message, details, traceback, res, summary, issuesFixed, allIssuesFixed) ==
  [t |-> t, status |-> status, message |-> message, details |-> details,
   traceback |-> traceback, results |-> res, summary |-> summary,
   issuesFixed |-> issuesFixed, allIssuesFixed |-> allIssuesFixed]

JNull == JValue("null", Undefined, Undefined, NoText, FALSE, NoList, NoSummary, NoMap, Undefined)
JNumber == JValue("num", Undefined, Undefined, NoText, FALSE, NoList, NoSummary, NoMap, Undefined)
JEmptyObject == JValue("obj", Undefined, Undefined, NoText, FALSE, NoList, NoSummary, NoMap, Undefined)

\* One line of an output stream: the serialisation of a JSON value, a line
\* of other text (a traceback, a debug print, cut-off JSON), or a blank line.
JsonLine(v) == [kind |-> "json", txt |-> "", val |-> v]
TextLine(s) == [kind |-> "text", txt |-> s, val |-> JNull]
BlankLine == [kind |-> "blank", txt |-> "", val |-> JNull]

\* JSON.parse(text): the text must be exactly one JSON value, white space
\* (blank lines, the final newline) around it allowed; anything else throws.
JSONParse(text) ==
  LET body == SelectSeq(text, LAMBDA l : l.kind # "blank")
  IN  IF Len(body) = 1 /\ body[1].kind = "json"
      THEN [threw |-> FALSE, val |-> body[1].val]
      ELSE [threw |-> TRUE, val |-> JNull]

-----------------------------------------------------------------------------
(* analyzeIssuesFixed, lines 260-302 *)

\* A description is a sequence of words; String.prototype.includes is the
\* search for a contiguous run of words.
Includes(text, keyword) ==
  \E s \in 1..(Len(text) - Len(keyword) + 1) :
    SubSeq(text, s, s + Len(keyword) - 1) = keyword

\* The hard-coded associations of lines 285-297.
KeywordTable ==
  << [keyword |-> <<"ascending", "order">>, id |-> 1],
     [keyword |-> <<"Duplicate">>, id |-> 2],
     [keyword |-> <<"Negative">>, id |-> 3] >>

\* issues.some(i => i.id === id)
IssuesSome(issues, id) == \E k \in DOMAIN issues : issues[k] = id

\* issuesFixed[id] = value, on an object whose keys are DOMAIN issuesFixed.
SetKey(issuesFixed, id, value) ==
  [k \in (DOMAIN issuesFixed) \cup {id} |-> IF k = id THEN value ELSE issuesFixed[k]]

\* issues.forEach(issue => { issuesFixed[issue.id] = value })
RECURSIVE SetAll(_, _, _, _)
SetAll(issuesFixed, issues, k, value) ==
  IF k > Len(issues) THEN issuesFixed
  ELSE SetAll(SetKey(issuesFixed, issues[k], value), issues, k + 1, value)

\* Faulty variant of the next definition: results.some(r => r.passed).
AllPassedSome(res) == \E k \in DOMAIN res : res[k].passed
\* results.every(r => r.passed)
AllPassed(res) == \A k \in DOMAIN res : res[k].passed

\* Faulty variant of the next definition: the test of result.passed left out.
IsEvidenceAny(result) == TRUE
\* `if (result.passed)`, line 283
IsEvidence(result) == result.passed

\* The three `if`s of lines 285-297 for one passing result, from entry e of
\* the table on.
RECURSIVE MarkResult(_, _, _, _)
MarkResult(issuesFixed, result, issues, e) ==
  IF e > Len(KeywordTable) THEN issuesFixed
  ELSE IF /\ Includes(result.description.text, KeywordTable[e].keyword)
          /\ IssuesSome(issues, KeywordTable[e].id)
       THEN MarkResult(SetKey(issuesFixed, KeywordTable[e].id, TRUE), result, issues, e + 1)
       ELSE MarkResult(issuesFixed, result, issues, e + 1)

\* results.forEach(...) of lines 282-299, from result k on.  A passing result
\* without a description makes result.description.includes throw.
RECURSIVE MarkFrom(_, _, _, _)
MarkFrom(issuesFixed, res, k, issues) ==
  IF k > Len(res) THEN [threw |-> FALSE, map |-> issuesFixed]
  ELSE IF ~IsEvidence(res[k]) THEN MarkFrom(issuesFixed, res, k + 1, issues)
  ELSE IF ~res[k].description.def THEN [threw |-> TRUE, map |-> issuesFixed]
  ELSE MarkFrom(MarkResult(issuesFixed, res[k], issues, 1), res, k + 1, issues)

analyzeIssuesFixed(res, issues) ==
  LET unfixed == SetAll(<<>>, issues, 1, FALSE)
  IN  IF AllPassed(res)
      THEN [threw |-> FALSE, map |-> SetAll(unfixed, issues, 1, TRUE)]
      ELSE MarkFrom(unfixed, res, 1, issues)

-----------------------------------------------------------------------------
(* Python values of the harness *)

PyInt(n) == [t |-> "int", n |-> n, items |-> <<>>]
PyList(items) == [t |-> "list", n |-> 0, items |-> items]
\* A dict, by its values in insertion order (what list(d.values()) gives).
PyDict(items) == [t |-> "dict", n |-> 0, items |-> items]
\* JSON true/false/null, which JSON.stringify writes as the bare words
\* true/false/null: names no Python program defines.
PyJsonWord == [t |-> "jsonword", n |-> 0, items |-> <<>>]
\* A value json.dumps cannot serialise (a set, an object).
PySet == [t |-> "set", n |-> 0, items |-> <<>>]
\* float("nan"): unequal to everything, and json.dumps writes it as NaN.
PyNaN == [t |-> "nan", n |-> 0, items |-> <<>>]

\* Python's a == b on these values.
PyEq(a, b) == a.t # "nan" /\ b.t # "nan" /\ a = b

Absent == [def |-> FALSE, val |-> PyInt(0)]
Present(v) == [def |-> TRUE, val |-> v]

\* One element of `results`: the dicts of lines 176-183 and 185-193.
Outcome(testCase, description, input, expected, actual, error, passed) ==
  [testCase |-> testCase, description |-> description, input |-> input,
   expected |-> expected, actual |-> actual, error |-> error, passed |-> passed]

Text(words) == [def |-> TRUE, text |-> words]

-----------------------------------------------------------------------------
(* processPistonResponse, lines 218-257 *)

ExecutionError(details) ==
  JValue("obj", "error", "Execution error", Text(details), FALSE,
         NoList, NoSummary, NoMap, Undefined)

ParseFailure(rawStdout) ==
  JValue("obj", "error", "Failed to parse test results", Text(rawStdout), FALSE,
         NoList, NoSummary, NoMap, Undefined)

\* pistonResponse.run.code !== 0
ExecutionFailed(run) == run.code # 0

\* Faulty variant of the next definition: stdout, whatever stderr holds.
DetailsOfStdout(run) == run.stdout
\* pistonResponse.run.stderr || pistonResponse.run.output
DetailsOf(run) == IF run.stderr # <<>> THEN run.stderr ELSE run.output

JsBool(b) == IF b THEN "true" ELSE "false"

\* The body of the try block, lines 230-247, for a value JSON.parse returned;
\* every TypeError it can raise lands in the catch of line 248.
Annotate(testResults, run, prob) ==
  IF testResults.t = "null" THEN ParseFailure(run.stdout)
  ELSE IF testResults.status # "completed" THEN testResults
  ELSE IF ~testResults.summary.def THEN ParseFailure(run.stdout)
  ELSE LET allPassed == testResults.summary.failed = 0
       IN  IF prob.issues.def
           THEN IF ~testResults.results.def THEN ParseFailure(run.stdout)
                ELSE LET fixed == analyzeIssuesFixed(testResults.results.list,
                                                     prob.issues.list)
                     IN  IF fixed.threw THEN ParseFailure(run.stdout)
                         ELSE [testResults EXCEPT
                                 !.issuesFixed = [def |-> TRUE, map |-> fixed.map],
                                 !.allIssuesFixed = JsBool(allPassed)]
           ELSE [testResults EXCEPT
                   !.issuesFixed = [def |-> TRUE, map |-> <<>>],
                   !.allIssuesFixed = JsBool(allPassed)]

processPistonResponse(run, prob) ==
  IF ExecutionFailed(run) THEN ExecutionError(DetailsOf(run))
  ELSE LET parsed == JSONParse(run.stdout)
       IN  IF parsed.threw THEN ParseFailure(run.stdout)
           ELSE Annotate(parsed.val, run, prob)

-----------------------------------------------------------------------------
(* The inputs of one request *)

\* startingCode.python, line by line: a line that holds `def <name>(`, or
\* any other line.
DefLine(name) == [isDef |-> TRUE, name |-> name]
OtherLine == [isDef |-> FALSE, name |-> ""]

\* code.match(/def\s+([a-zA-Z0-9_]+)\s*\(/): the first match, from line k on.
RECURSIVE FirstDef(_, _)
FirstDef(codeLines, k) ==
  IF k > Len(codeLines) THEN "user_function"
  ELSE IF codeLines[k].isDef THEN codeLines[k].name
  ELSE FirstDef(codeLines, k + 1)

extractFunctionName(codeLines) == FirstDef(codeLines, 1)

TestCase(input, expected, description) ==
  [input |-> input, expected |-> expected, description |-> description]

TestCases ==
  { TestCase(PyList(<<2, 3>>), PyInt(5), NoText),
    TestCase(PyDict(<<2, 3>>), PyInt(5), Text(<<"Numbers", "in", "ascending", "order">>)),
    TestCase(PyInt(5), PyInt(5), Text(<<"Duplicate", "numbers">>)),
    TestCase(PyInt(1), PyJsonWord, Text(<<"Negative", "numbers">>)) }

StartingCodes ==
  { <<DefLine("add")>>, <<OtherLine, DefLine("add"), DefLine("helper")>>, <<OtherLine>> }

IssueLists == { NoList, [def |-> TRUE, list |-> <<1, 2>>] }

NullProblem ==
  [found |-> FALSE, startingCode |-> <<>>, testCases |-> <<>>, issues |-> NoList]

Problems ==
  { [found |-> TRUE, startingCode |-> sc, testCases |-> tcs, issues |-> iss] :
      sc \in StartingCodes, tcs \in SeqUpTo(TestCases, MaxTests), iss \in IssueLists }

\* What the entry point does when called: the function `def add(a, b):
\* return a + b`, or a function `def f(*args)` that may do anything.
AddFunction == "add"
AnyFunction == "any"

Program(load, loadPrints, exitCode, defines, fn) ==
  [load |-> load, loadPrints |-> loadPrints, exitCode |-> exitCode,
   defines |-> defines, fn |-> fn]

\* Report-shaped records a program can print by itself.
Completed(res, summary) ==
  JValue("obj", "completed", Undefined, NoText, FALSE, res, summary, NoMap, Undefined)

PassedOutcome(k, description) ==
  Outcome(k, description, PyInt(5), PyInt(5), Present(PyInt(5)), FALSE, TRUE)
FailedOutcome(k, description) ==
  Outcome(k, description, PyInt(5), PyInt(5), Present(PyInt(4)), FALSE, FALSE)

PrintedValues ==
  { Completed([def |-> TRUE, list |-> <<PassedOutcome(1, Text(<<"Duplicate">>))>>], Summary(1, 1, 0)),
    Completed([def |-> TRUE, list |-> <<>>], Summary(3, 3, 0)),
    Completed([def |-> TRUE, list |-> <<FailedOutcome(1, NoText)>>], Summary(1, 1, 1)),
    Completed([def |-> TRUE, list |-> <<PassedOutcome(1, NoText), FailedOutcome(2, NoText)>>],
              Summary(2, 1, 1)),
    Completed(NoList, Summary(0, 0, 0)),
    Completed([def |-> TRUE, list |-> <<>>], NoSummary),
    JValue("obj", "error", "made up", NoText, FALSE, NoList, NoSummary, NoMap, "true"),
    JNumber, JNull, JEmptyObject }

PrintedTexts ==
  { <<>>, <<TextLine("debug")>>, <<BlankLine>>, <<TextLine("{\"status\": \"comp")>> }
    \cup { <<JsonLine(v)>> : v \in PrintedValues }

\* def add(a, b): return a + b
AddProgram == Program("ok", <<>>, 0, {"add"}, AddFunction)

UserCodes ==
  { AddProgram,
    Program("ok", <<>>, 0, {"add", "user_function"}, AnyFunction),
    Program("ok", <<TextLine("debug")>>, 0, {"add"}, AddFunction),
    Program("ok", <<BlankLine>>, 0, {"add"}, AddFunction),
    Program("ok", <<>>, 0, {"helper"}, AddFunction),
    Program("raise", <<>>, 0, {}, AddFunction),
    Program("breakout", <<>>, 0, {}, AddFunction) }
    \cup { Program("exit", p, c, {}, AddFunction) : p \in PrintedTexts, c \in {0, 1} }

Languages == {"python", "javascript"}

-----------------------------------------------------------------------------
(* The generated harness, createPythonTestWrapper lines 120-209, as the    *)
(* Piston executes it *)

functionName == extractFunctionName(problem.startingCode)

\* `testCase` is filled in by the loop: the test case the call was made for.
Returns(v, prints) ==
  [kind |-> "return", val |-> v, exitCode |-> 0, prints |-> prints, testCase |-> 0]
\* An exception of a class derived from Exception.
Raises ==
  [kind |-> "raise", val |-> PyInt(0), exitCode |-> 0, prints |-> <<>>, testCase |-> 0]
\* sys.exit(c) / exit(c): SystemExit, derived from BaseException only.
Exits(c) ==
  [kind |-> "exit", val |-> PyInt(0), exitCode |-> c, prints |-> <<>>, testCase |-> 0]
NoEvent ==
  [kind |-> "none", val |-> PyInt(0), exitCode |-> 0, prints |-> <<>>, testCase |-> 0]

\* What calling the entry point with the positional arguments `args` can do.
Invoke(fn, args, test) ==
  IF fn = AddFunction
  THEN IF Len(args) # 2 THEN {Raises}
       ELSE IF args[1].t = "int" /\ args[2].t = "int"
            THEN {Returns(PyInt(args[1].n + args[2].n), <<>>)}
            ELSE {Raises}
  ELSE { Returns(test.expected, <<>>), Returns(PyInt(0), <<>>),
         Returns(test.expected, <<TextLine("debug")>>),
         Returns(PySet, <<>>), Returns(PyNaN, <<>>),
         Raises, Exits(0), Exits(1) }

\* Faulty variant of the next definition: a list is spread like a dict.
FunctionArgsSpreadingLists(input) ==
  IF input.t \in {"dict", "list"}
  THEN [k \in DOMAIN input.items |-> PyInt(input.items[k])]
  ELSE <<input>>
\* Lines 165-171: a dict is spread into positional arguments, anything else
\* is the single argument.
FunctionArgs(input) ==
  IF input.t = "dict"
  THEN [k \in DOMAIN input.items |-> PyInt(input.items[k])]
  ELSE <<input>>

\* test.get("description", f"Test case {i+1}")
DescriptionOf(test, i) ==
  IF test.description.def THEN test.description
  ELSE Text(<<"Test", "case", ToString(i + 1)>>)

\* Whether the literal JSON.stringify(problem.testCases) is a Python
\* expression that evaluates: true, false and null are undefined names.
LiteralEvaluates(testCases) ==
  \A k \in DOMAIN testCases :
    testCases[k].input.t # "jsonword" /\ testCases[k].expected.t # "jsonword"

Passed(res) == {k \in DOMAIN res : res[k].passed}

\* json.dumps of the report, lines 196-204.
Serialisable(res) == \A k \in DOMAIN res : ~(res[k].actual.def /\ res[k].actual.val.t = "set")
HasNaN(res) == \E k \in DOMAIN res : res[k].actual.def /\ res[k].actual.val.t = "nan"

ReportLine(res) ==
  IF HasNaN(res) THEN TextLine("{\"status\": \"completed\", ... NaN ...}")
  ELSE JsonLine(Completed([def |-> TRUE, list |-> res],
                          Summary(Len(res), Cardinality(Passed(res)),
                                  Len(res) - Cardinality(Passed(res)))))

UserCodeError ==
  JValue("obj", "error", "Error in user code: <str(e)>", NoText, TRUE,
         NoList, NoSummary, NoMap, Undefined)
FunctionNotFound ==
  JValue("obj", "error", "Function '<functionName>' not found in your code.", NoText, FALSE,
         NoList, NoSummary, NoMap, Undefined)

handlerVars == <<userCode, language, problem, response>>

\* The process ends with exit code c.
Exit(c) == pc' = "exited" /\ code' = c

\* Lines 131-142: exec of the user code.
HarnessExec ==
  /\ pc = "exec"
  /\ IF userCode.load = "ok"
     THEN /\ namespace' = userCode.defines
          /\ stdout' = stdout \o userCode.loadPrints
          /\ pc' = "run_tests"
          /\ UNCHANGED <<stderr, code>>
     ELSE IF userCode.load = "raise"
     THEN /\ stdout' = stdout \o userCode.loadPrints \o <<JsonLine(UserCodeError)>>
          /\ Exit(1)
          /\ UNCHANGED <<namespace, stderr>>
     ELSE IF userCode.load = "exit"
     THEN /\ stdout' = stdout \o userCode.loadPrints
          /\ Exit(userCode.exitCode)
          /\ UNCHANGED <<namespace, stderr>>
     ELSE \* the text closes the triple-quoted string: main.py does not compile
          /\ stderr' = <<TextLine("SyntaxError")>>
          /\ Exit(1)
          /\ UNCHANGED <<namespace, stdout>>
  /\ UNCHANGED <<results, idx, event, handlerVars>>

\* Lines 145-156 and 207: run_tests up to its loop.
HarnessRunTests ==
  /\ pc = "run_tests"
  /\ IF ~LiteralEvaluates(problem.testCases)
     THEN /\ stderr' = <<TextLine("NameError")>>
          /\ Exit(1)
          /\ UNCHANGED <<stdout, results, idx>>
     ELSE IF functionName \notin namespace
     THEN /\ stdout' = Append(stdout, JsonLine(FunctionNotFound))
          /\ Exit(1)
          /\ UNCHANGED <<stderr, results, idx>>
     ELSE /\ results' = <<>>
          /\ idx' = 0
          /\ pc' = "loop"
          /\ UNCHANGED <<stdout, stderr, code>>
  /\ UNCHANGED <<namespace, event, handlerVars>>

\* Lines 159-193: one iteration of the loop.
HarnessTestCase ==
  /\ pc = "loop"
  /\ idx < Len(problem.testCases)
  /\ LET test == problem.testCases[idx + 1]
     IN  \E ev \in Invoke(userCode.fn, FunctionArgs(test.input), test) :
           /\ event' = [ev EXCEPT !.testCase = idx + 1]
           /\ stdout' = stdout \o ev.prints
           /\ IF ev.kind = "return"
              THEN /\ results' = Append(results,
                        Outcome(idx + 1, DescriptionOf(test, idx), test.input,
                                test.expected, Present(ev.val), FALSE,
                                PyEq(ev.val, test.expected)))
                   /\ idx' = idx + 1
                   /\ UNCHANGED <<pc, code>>
              ELSE IF ev.kind = "raise"
              THEN /\ results' = Append(results,
                        Outcome(idx + 1, DescriptionOf(test, idx), test.input,
                                test.expected, Absent, TRUE, FALSE))
                   /\ idx' = idx + 1
                   /\ UNCHANGED <<pc, code>>
              ELSE /\ Exit(ev.exitCode)
                   /\ UNCHANGED <<results, idx>>
  /\ UNCHANGED <<namespace, stderr, handlerVars>>

\* Lines 195-204: the report.
HarnessPrint ==
  /\ pc = "loop"
  /\ idx = Len(problem.testCases)
  /\ IF Serialisable(results)
     THEN /\ stdout' = Append(stdout, ReportLine(results))
          /\ Exit(0)
          /\ UNCHANGED stderr
     ELSE /\ stderr' = <<TextLine("TypeError")>>
          /\ Exit(1)
          /\ UNCHANGED stdout
  /\ UNCHANGED <<namespace, results, idx, event, handlerVars>>

\* Piston ends the process itself (its time or memory limit): the run
\* has no exit code (code: null, here -1) and the output captured so far.
PistonKill ==
  /\ pc \in {"exec", "run_tests", "loop"}
  /\ Exit(0 - 1)
  /\ UNCHANGED <<namespace, results, idx, stdout, stderr, event, handlerVars>>

-----------------------------------------------------------------------------
(* POST /api/run, lines 74-116 *)

NoResponse == [http |-> 0, error |-> "", body |-> JNull]
ErrorResponse(http, error) == [http |-> http, error |-> error, body |-> JNull]

harnessVars == <<namespace, results, idx, stdout, stderr, code, event>>

\* Lines 75-103: up to the call of Piston.
HandleRun ==
  /\ pc = "request"
  /\ IF ~problem.found
     THEN response' = ErrorResponse(404, "No daily problem found") /\ pc' = "responded"
     ELSE IF language # "python"
     THEN response' = ErrorResponse(400, "Language is not supported yet") /\ pc' = "responded"
     ELSE pc' = "dispatch" /\ UNCHANGED response
  /\ UNCHANGED <<userCode, language, problem, harnessVars>>

\* Lines 105-108 and 113-115: axios.post rejects.
DispatchFails ==
  /\ pc = "dispatch"
  /\ response' = ErrorResponse(500, "<error.message>")
  /\ pc' = "responded"
  /\ UNCHANGED <<userCode, language, problem, harnessVars>>

\* Lines 94-108: Piston starts main.py.
PistonStart ==
  /\ pc = "dispatch"
  /\ pc' = "exec"
  /\ UNCHANGED <<handlerVars, harnessVars>>

\* data.run of the answer of Piston.
Run == [code |-> code, stdout |-> stdout, stderr |-> stderr, output |-> stdout \o stderr]

\* Lines 110-112.
ProcessResponse ==
  /\ pc = "exited"
  /\ response' = [http |-> 200, error |-> "", body |-> processPistonResponse(Run, problem)]
  /\ pc' = "responded"
  /\ UNCHANGED <<userCode, language, problem, harnessVars>>

issueIdle == aResults = <<>> /\ aIssues = <<>> /\ aOut = [threw |-> FALSE, map |-> <<>>] /\ aPc = "idle"
cacheIdle ==
  /\ dailyProblemCache = 0 /\ lastCacheUpdate = 0 /\ clock = 0 /\ storage = <<>>
  /\ cpc = <<>> /\ cnow = <<>> /\ cfiles = <<>> /\ cproblems = <<>> /\ cret = <<>>
runIdle ==
  /\ pc = "idle" /\ userCode = AddProgram /\ language = "python" /\ problem = NullProblem
  /\ namespace = {} /\ results = <<>> /\ idx = 0 /\ stdout = <<>> /\ stderr = <<>>
  /\ code = 0 /\ event = NoEvent /\ response = NoResponse

Init ==
  /\ pc = "request"
  /\ userCode \in UserCodes
  /\ language \in Languages
  /\ problem \in Problems \cup {NullProblem}
  /\ namespace = {}
  /\ results = <<>>
  /\ idx = 0
  /\ stdout = <<>>
  /\ stderr = <<>>
  /\ code = 0
  /\ event = NoEvent
  /\ response = NoResponse
  /\ issueIdle
  /\ cacheIdle

Next ==
  \/ (HandleRun /\ UNCHANGED <<issueVars, cacheVars>>)
  \/ (DispatchFails /\ UNCHANGED <<issueVars, cacheVars>>)
  \/ (PistonStart /\ UNCHANGED <<issueVars, cacheVars>>)
  \/ (HarnessExec /\ UNCHANGED <<issueVars, cacheVars>>)
  \/ (HarnessRunTests /\ UNCHANGED <<issueVars, cacheVars>>)
  \/ (HarnessTestCase /\ UNCHANGED <<issueVars, cacheVars>>)
  \/ (HarnessPrint /\ UNCHANGED <<issueVars, cacheVars>>)
  \/ (PistonKill /\ UNCHANGED <<issueVars, cacheVars>>)
  \/ (ProcessResponse /\ UNCHANGED <<issueVars, cacheVars>>)

Spec == Init /\ [][Next]_vars

-----------------------------------------------------------------------------
(* analyzeIssuesFixed applied to bounded inputs (SpecIssues) *)

Descriptions ==
  { NoText,
    Text(<<"ascending", "order">>),
    Text(<<"order", "ascending">>),
    Text(<<"Duplicate", "Negative">>),
    Text(<<"duplicate">>),
    Text(<<"Negative">>),
    Text(<<"Test", "case", "1">>) }

AnalysisOutcomes ==
  { Outcome(1, d, PyInt(5), PyInt(5), Absent, FALSE, p) : d \in Descriptions, p \in BOOLEAN }

\* Ids 1..3 have a keyword in the table, id 4 has none.
IssueIdUniverse == 1..4

InitIssues ==
  /\ aResults \in SeqUpTo(AnalysisOutcomes, MaxOutcomes)
  /\ aIssues \in SeqUpTo(IssueIdUniverse, MaxIssues)
  /\ aOut = [threw |-> FALSE, map |-> <<>>]
  /\ aPc = "call"
  /\ runIdle
  /\ cacheIdle

AnalyzeCall ==
  /\ aPc = "call"
  /\ aOut' = analyzeIssuesFixed(aResults, aIssues)
  /\ aPc' = "returned"
  /\ UNCHANGED <<aResults, aIssues, runVars, cacheVars>>

NextIssues == AnalyzeCall

SpecIssues == InitIssues /\ [][NextIssues]_vars

-----------------------------------------------------------------------------
(* getDailyProblem, lines 14-55, called by concurrent requests (SpecCache) *)

NumCallers == 3       \* requests in flight at once
MaxTicks == 3         \* the clock advances at most this many steps
ClockStep == 1800000  \* milliseconds by which the clock advances in one step
CacheTtl == 3600000   \* line 23

Callers == 1..NumCallers

\* A file of the problems directory: whether its name ends with ".json",
\* whether its content is JSON, and the problem it holds.
File(json, valid, id, datePublished) ==
  [json |-> json, valid |-> valid, id |-> id, datePublished |-> datePublished]
NoProblem == [id |-> 0, datePublished |-> 0]
NoDate == 0 - 1

Storages ==
  { <<>>,
    <<File(TRUE, TRUE, 1, 10)>>,
    <<File(TRUE, TRUE, 1, 10), File(TRUE, TRUE, 2, 20)>>,
    <<File(FALSE, TRUE, 9, 90), File(TRUE, TRUE, 2, 20), File(TRUE, TRUE, 1, 20)>>,
    <<File(TRUE, TRUE, 1, 10), File(TRUE, FALSE, 0, 0)>>,
    <<File(FALSE, TRUE, 9, 90)>> }

\* The loop of lines 31-37 up to its next await: files whose name does not
\* end with ".json" are passed over.
RECURSIVE SkipOthers(_)
SkipOthers(files) ==
  IF files = <<>> \/ files[1].json THEN files ELSE SkipOthers(Tail(files))

\* problems.sort((a, b) => new Date(b.datePublished) - new Date(a.datePublished)):
\* a stable sort, most recent first; insertion of p into a sorted list.
RECURSIVE InsertByDate(_, _)
InsertByDate(sorted, p) ==
  IF sorted = <<>> THEN <<p>>
  ELSE IF sorted[1].datePublished < p.datePublished THEN <<p>> \o sorted
  ELSE <<sorted[1]>> \o InsertByDate(Tail(sorted), p)

RECURSIVE SortByDate(_)
SortByDate(problems) ==
  IF problems = <<>> THEN <<>>
  ELSE InsertByDate(SortByDate(SubSeq(problems, 1, Len(problems) - 1)),
                    problems[Len(problems)])

\* Lines 23-25: the cache is set and younger than one hour.
CacheFresh(now) ==
  /\ dailyProblemCache # NoProblem
  /\ lastCacheUpdate # NoDate
  /\ now - lastCacheUpdate < CacheTtl

Return(c, value) ==
  /\ cret' = [cret EXCEPT ![c] = value]
  /\ cpc' = [cpc EXCEPT ![c] = "done"]

\* Lines 39-50, reached without a further await once the loop is over.
Finish(c, problems) ==
  LET sorted == SortByDate(problems)
  IN  IF Len(sorted) = 0
      THEN /\ Return(c, NoProblem)
           /\ UNCHANGED <<dailyProblemCache, lastCacheUpdate>>
      ELSE /\ dailyProblemCache' = sorted[1]
           /\ lastCacheUpdate' = cnow[c]
           /\ Return(c, sorted[1])

\* The loop from `files` on, up to its next await or to the return.
Continue(c, files, problems) ==
  LET rest == SkipOthers(files)
  IN  IF rest = <<>>
      THEN /\ Finish(c, problems)
           /\ cfiles' = [cfiles EXCEPT ![c] = <<>>]
           /\ cproblems' = [cproblems EXCEPT ![c] = problems]
      ELSE /\ cfiles' = [cfiles EXCEPT ![c] = rest]
           /\ cproblems' = [cproblems EXCEPT ![c] = problems]
           /\ cpc' = [cpc EXCEPT ![c] = "readFile"]
           /\ UNCHANGED <<dailyProblemCache, lastCacheUpdate, cret>>

\* Lines 19-28: the call up to its first await.
Enter(c) ==
  /\ cpc[c] = "idle"
  /\ cnow' = [cnow EXCEPT ![c] = clock]
  /\ IF CacheFresh(clock)
     THEN Return(c, dailyProblemCache)
     ELSE cpc' = [cpc EXCEPT ![c] = "readdir"] /\ UNCHANGED cret
  /\ UNCHANGED <<dailyProblemCache, lastCacheUpdate, clock, storage, cfiles, cproblems>>

\* Line 28 resolves.
ReaddirDone(c) ==
  /\ cpc[c] = "readdir"
  /\ Continue(c, storage, <<>>)
  /\ UNCHANGED <<clock, storage, cnow>>

\* Line 28 rejects: the catch of lines 51-54.
ReaddirFails(c) ==
  /\ cpc[c] = "readdir"
  /\ Return(c, NoProblem)
  /\ UNCHANGED <<dailyProblemCache, lastCacheUpdate, clock, storage, cnow, cfiles, cproblems>>

\* Lines 34-35: readFile resolves and its content is parsed.
ReadFileDone(c) ==
  /\ cpc[c] = "readFile"
  /\ IF cfiles[c][1].valid
     THEN Continue(c, Tail(cfiles[c]),
                   Append(cproblems[c],
                          [id |-> cfiles[c][1].id,
                           datePublished |-> cfiles[c][1].datePublished]))
     ELSE /\ Return(c, NoProblem)
          /\ UNCHANGED <<dailyProblemCache, lastCacheUpdate, cfiles, cproblems>>
  /\ UNCHANGED <<clock, storage, cnow>>

Tick ==
  /\ clock < MaxTicks * ClockStep
  /\ clock' = clock + ClockStep
  /\ UNCHANGED <<dailyProblemCache, lastCacheUpdate, storage, cpc, cnow, cfiles,
                 cproblems, cret>>

InitCache ==
  /\ dailyProblemCache = NoProblem
  /\ lastCacheUpdate = NoDate
  /\ clock = 0
  /\ storage \in Storages
  /\ cpc = [c \in Callers |-> "idle"]
  /\ cnow = [c \in Callers |-> 0]
  /\ cfiles = [c \in Callers |-> <<>>]
  /\ cproblems = [c \in Callers |-> <<>>]
  /\ cret = [c \in Callers |-> NoProblem]
  /\ runIdle
  /\ issueIdle

NextCache ==
  \/ \E c \in Callers : Enter(c) /\ UNCHANGED <<runVars, issueVars>>
  \/ \E c \in Callers : ReaddirDone(c) /\ UNCHANGED <<runVars, issueVars>>
  \/ \E c \in Callers : ReaddirFails(c) /\ UNCHANGED <<runVars, issueVars>>
  \/ \E c \in Callers : ReadFileDone(c) /\ UNCHANGED <<runVars, issueVars>>
  \/ (Tick /\ UNCHANGED <<runVars, issueVars>>)

SpecCache == InitCache /\ [][NextCache]_vars

-----------------------------------------------------------------------------
(* Properties of one request (Spec) *)

\* The handler answered with what processPistonResponse returned.
Interpreted == pc = "responded" /\ response.http = 200

\* C1: whenever Piston reports an exit code other than 0, whatever
\* stdout holds, the result is {status: "error", message: "Execution error"}
\* without results, summary or issuesFixed, and its details are stderr when
\* stderr is not empty and the captured output otherwise.
C1_NonZeroExitIsExecutionError ==
  (Interpreted /\ code # 0) =>
    /\ response.body.status = "error"
    /\ response.body.message = "Execution error"
    /\ ~response.body.results.def
    /\ ~response.body.summary.def
    /\ ~response.body.issuesFixed.def
    /\ response.body.allIssuesFixed = Undefined
    /\ response.body.details.def
    /\ response.body.details.text = (IF Len(stderr) > 0 THEN stderr ELSE stdout \o stderr)

\* C1's case: a non-zero exit code with a well-formed completed report on stdout.
C1_Witness ==
  /\ Interpreted
  /\ code # 0
  /\ ~JSONParse(stdout).threw
  /\ JSONParse(stdout).val.status = "completed"
  /\ JSONParse(stdout).val.summary.def

\* stdout is exactly one record of the harness's report contract.
IsReportRecord(text) ==
  LET parsed == JSONParse(text)
  IN  /\ ~parsed.threw
      /\ parsed.val.t = "obj"
      /\ \/ /\ parsed.val.status = "completed"
            /\ parsed.val.results.def
            /\ parsed.val.summary.def
         \/ /\ parsed.val.status = "error"
            /\ parsed.val.message # Undefined

\* C2: with exit code 0 and a stdout that is not exactly one report record,
\* the result is {status: "error", message: "Failed to parse test results"}
\* with the raw stdout as details.
C2_MalformedStdoutIsParseFailure ==
  (Interpreted /\ code = 0 /\ ~IsReportRecord(stdout)) =>
    /\ response.body.status = "error"
    /\ response.body.message = "Failed to parse test results"
    /\ response.body.details = Text(stdout)

\* C3: when the user code fails to load, the harness prints its error record
\* before any test case runs, and the result returned to the caller has
\* status "error", the record's "Error in user code" message and no outcomes.
C3_LoadFailureMessagePropagated ==
  (Interpreted /\ userCode.load = "raise" /\ code = 1) =>
    /\ stdout = <<JsonLine(UserCodeError)>>
    /\ results = <<>>
    /\ response.body.status = "error"
    /\ response.body.message = UserCodeError.message
    /\ ~response.body.results.def

\* C4: every result with status "completed" has summary.total equal to the
\* number of outcomes and summary.passed + summary.failed = summary.total.
C4_SummaryInvariant ==
  (Interpreted /\ response.body.status = "completed") =>
    /\ response.body.summary.def
    /\ response.body.results.def
    /\ response.body.summary.total = Len(response.body.results.list)
    /\ response.body.summary.passed + response.body.summary.failed
         = response.body.summary.total

\* C5: allIssuesFixed of a result is true exactly when its status is
\* "completed" and its summary.failed is 0.
C5_AllIssuesFixedRecomputed ==
  Interpreted =>
    ((response.body.allIssuesFixed = "true")
       <=> /\ response.body.status = "completed"
           /\ response.body.summary.def
           /\ response.body.summary.failed = 0)

\* C7: an exception raised by the call for test case i leaves outcome i in
\* `results`, failed and with an error text; the loop keeps one outcome per
\* test case run, in order; and a report the harness prints is "completed"
\* with one outcome per test case.
C7_RaisedCallIsRecorded ==
  /\ event.kind \in {"raise", "exit"} =>
       /\ Len(results) >= event.testCase
       /\ results[event.testCase].testCase = event.testCase
       /\ ~results[event.testCase].passed
       /\ results[event.testCase].error
  /\ pc = "loop" =>
       /\ Len(results) = idx
       /\ \A k \in DOMAIN results : results[k].testCase = k
  /\ (pc = "exited" /\ code = 0 /\ userCode.load = "ok" /\ event.kind # "exit"
        /\ Len(stdout) > 0 /\ stdout[Len(stdout)].kind = "json") =>
       /\ stdout[Len(stdout)].val.status = "completed"
       /\ Len(stdout[Len(stdout)].val.results.list) = Len(problem.testCases)

\* The scenario of C8: one test case {input: [2, 3], expected: 5}, the
\* submitted `def add(a, b): return a + b`, the harness run to its end.
Scenario(input) ==
  /\ Interpreted
  /\ code = 0
  /\ userCode = AddProgram
  /\ functionName = "add"
  /\ problem.testCases = <<TestCase(input, PyInt(5), NoText)>>

\* C8 as stated: the list's elements are passed as separate arguments and
\* the result is completed, 1 of 1 passed, allIssuesFixed true.
C8_ListIsSpread ==
  Scenario(PyList(<<2, 3>>)) =>
    /\ response.body.status = "completed"
    /\ response.body.summary = Summary(1, 1, 0)
    /\ response.body.allIssuesFixed = "true"

\* C8 amended: the list is passed as the single argument, the call raises
\* and is recorded as the failing outcome: completed, 0 of 1 passed,
\* allIssuesFixed false.
C8_ListIsOneArgument ==
  Scenario(PyList(<<2, 3>>)) =>
    /\ response.body.status = "completed"
    /\ response.body.summary = Summary(1, 0, 1)
    /\ response.body.allIssuesFixed = "false"
    /\ response.body.results.list[1].error
    /\ ~response.body.results.list[1].passed

C8_Witness == Scenario(PyList(<<2, 3>>))

-----------------------------------------------------------------------------
(* Properties of analyzeIssuesFixed (SpecIssues) *)

\* C6: when every outcome has passed (the empty list included), the mapping
\* returned has exactly the issue ids as keys and maps each of them to true.
C6_AllPassedFixesEveryIssue ==
  (aPc = "returned" /\ \A k \in DOMAIN aResults : aResults[k].passed = TRUE) =>
    /\ ~aOut.threw
    /\ DOMAIN aOut.map = {aIssues[k] : k \in DOMAIN aIssues}
    /\ \A id \in DOMAIN aOut.map : aOut.map[id] = TRUE

\* C6's case: outcomes that all passed, and an issue without a keyword.
C6_Witness ==
  /\ aPc = "returned"
  /\ Len(aResults) > 0
  /\ \A k \in DOMAIN aResults : aResults[k].passed
  /\ \E k \in DOMAIN aIssues : aIssues[k] = 4

\* The keyword the table associates with an issue id, as the claim lists them.
ClaimedKeywords(id) ==
  IF id = 1 THEN {<<"ascending", "order">>}
  ELSE IF id = 2 THEN {<<"Duplicate">>}
  ELSE IF id = 3 THEN {<<"Negative">>}
  ELSE {}

\* C10: when some outcome did not pass, an issue id is marked fixed only if
\* some outcome passed and its description contains the id's keyword; the
\* keys of the mapping are exactly the issue ids.
C10_FixedOnlyOnKeywordEvidence ==
  (aPc = "returned" /\ ~aOut.threw /\ \E k \in DOMAIN aResults : ~aResults[k].passed) =>
    /\ DOMAIN aOut.map = {aIssues[k] : k \in DOMAIN aIssues}
    /\ \A id \in DOMAIN aOut.map :
         aOut.map[id] =>
           \E k \in DOMAIN aResults :
             /\ aResults[k].passed
             /\ aResults[k].description.def
             /\ \E kw \in ClaimedKeywords(id) : Includes(aResults[k].description.text, kw)

\* C10's case: one outcome failed, one issue is marked fixed and one is not.
C10_Witness ==
  /\ aPc = "returned"
  /\ ~aOut.threw
  /\ \E k \in DOMAIN aResults : ~aResults[k].passed
  /\ \E id \in DOMAIN aOut.map : aOut.map[id]
  /\ \E id \in DOMAIN aOut.map : ~aOut.map[id]

-----------------------------------------------------------------------------
(* Properties of getDailyProblem (SpecCache) *)

\* Callers between the readdir of line 28 and their return: reloads in flight.
Reloading == {c \in Callers : cpc[c] \in {"readdir", "readFile"}}

\* C9: callers that arrive while a reload is in flight do not each start a
\* reload of their own: the reloads in flight stay below the number of
\* concurrent callers.
C9_ReloadsBelowCallers == Cardinality(Reloading) < NumCallers

=============================================================================
